---- MODULE Spec2Model ----
(***************************************************************************)
(* Model of the crypto indicator service:                                  *)
(*   api/get-crypto-data.py  calculate_rsi_optimized, get_real_time_data   *)
(*   api/index.py            handler.do_GET                                *)
(*                                                                         *)
(* Numbers are exact rationals <<n, d>> (d > 0, lowest terms); prices are  *)
(* integers.  Python dicts are sequences of members in insertion order.    *)
(***************************************************************************)
EXTENDS Integers, Sequences, FiniteSets, TLC

VARIABLES
    \* --- calculate_rsi_optimized / indicator computation harness ---
    rsiPrices,      \* the prices argument
    rsiPeriod,      \* the period argument
    rsiResult,      \* what calculate_rsi_optimized returned or raised
    engineResult,   \* the record built by lines 77-94 for rsiPrices
    \* --- get_real_time_data ---
    pc,             \* "fetch" | "process" | "done" ("idle" when not modelled)
    idx,            \* position of the for loop in COIN_IDS.items()
    requests_log,   \* coin ids for which requests.get was called, in order
    upstream,       \* what the upstream did for each request issued
    results,        \* the results dict
    returned,       \* the value returned by get_real_time_data
    jsonErrIsRequestException, \* class of the error raised by response.json()
    \* --- static page handler ---
    served          \* per GET request: the file-system outcome and the calls made

rsiVars == <<rsiPrices, rsiPeriod, rsiResult, engineResult>>
dataVars == <<pc, idx, requests_log, upstream, results, returned,
              jsonErrIsRequestException>>
pageVars == <<served>>
vars == <<rsiPrices, rsiPeriod, rsiResult, engineResult, pc, idx, requests_log,
          upstream, results, returned, jsonErrIsRequestException, served>>

-----------------------------------------------------------------------------
(* Bounds of the model *)

MaxLen == 4
MaxPrice == 3
MaxPeriod == 3
MaxRequests == 2

-----------------------------------------------------------------------------
(* Exact arithmetic *)

Abs(x) == IF x < 0 THEN -x ELSE x

RECURSIVE GCD(_, _)
GCD(a, b) == IF b = 0 THEN a ELSE GCD(b, a % b)

\* n/d in lowest terms with a positive denominator (d # 0)
RNorm(n, d) ==
    LET g == GCD(Abs(n), Abs(d))
        s == IF d < 0 THEN -1 ELSE 1
    IN  <<(s * n) \div g, (s * d) \div g>>

RInt(n) == <<n, 1>>
RAdd(a, b) == RNorm(a[1] * b[2] + b[1] * a[2], a[2] * b[2])
RSub(a, b) == RNorm(a[1] * b[2] - b[1] * a[2], a[2] * b[2])
RMul(a, b) == RNorm(a[1] * b[1], a[2] * b[2])
RDiv(a, b) == RNorm(a[1] * b[2], a[2] * b[1])
RIsZero(a) == a[1] = 0
RPos(a) == a[1] > 0

\* sum(s[lo..hi]), halving the range to keep the evaluation shallow
RECURSIVE SumRange(_, _, _)
SumRange(s, lo, hi) ==
    IF lo > hi THEN 0
    ELSE IF lo = hi THEN s[lo]
    ELSE SumRange(s, lo, (lo + hi) \div 2) + SumRange(s, (lo + hi) \div 2 + 1, hi)

\* sum(s)
SumSeq(s) == SumRange(s, 1, Len(s))

\* max(s[lo..hi]) for lo <= hi, halving the range like SumRange
RECURSIVE MaxRange(_, _, _)
MaxRange(s, lo, hi) ==
    IF lo = hi THEN s[lo]
    ELSE LET a == MaxRange(s, lo, (lo + hi) \div 2)
             b == MaxRange(s, (lo + hi) \div 2 + 1, hi)
         IN  IF a >= b THEN a ELSE b

\* max(s) of a non-empty list
MaxSeq(s) == MaxRange(s, 1, Len(s))

\* round(x, 2): nearest hundredth, an exact tie going to the even one
round2(x) ==
    LET q == x[1] * 100
        lo == q \div x[2]
        rem == q % x[2]
        k == IF 2 * rem < x[2] THEN lo
             ELSE IF 2 * rem > x[2] THEN lo + 1
             ELSE IF lo % 2 = 0 THEN lo ELSE lo + 1
    IN  RNorm(k, 100)

-----------------------------------------------------------------------------
(* Configuration *)

COIN_IDS == << <<"XRP", "ripple">>, <<"UNI", "uniswap">>,
               <<"SOL", "solana">>, <<"LINK", "chainlink">> >>
VS_CURRENCY == "usd"
DAYS == 90

-----------------------------------------------------------------------------
(* calculate_rsi_optimized *)

Returned(v) == [exc |-> "", val |-> v]
Raised(e, m) == [exc |-> e, msg |-> m]

deltasOf(prices) == [k \in 1..(Len(prices) - 1) |-> prices[k + 1] - prices[k]]

\* faulty variant: a fall counted as a gain
gainOf_unsigned(delta) == IF delta > 0 THEN delta ELSE -delta

gainOf(delta) == IF delta > 0 THEN delta ELSE 0
lossOf(delta) == IF delta < 0 THEN -delta ELSE 0

\* deltas[:period]
firstDeltas(deltas, period) ==
    SubSeq(deltas, 1, IF period < Len(deltas) THEN period ELSE Len(deltas))

\* lines 37-38: avg = (avg * (period - 1) + x) / period
wilderStep(avg, x, period) ==
    RDiv(RAdd(RMul(avg, RInt(period - 1)), RInt(x)), RInt(period))

\* the for loop of lines 32-38, i being the 1-based index of the next delta;
\* yields <<avg_gain, avg_loss>>
RECURSIVE wilderLoop(_, _, _, _, _)
wilderLoop(deltas, period, i, avg_gain, avg_loss) ==
    IF i > Len(deltas) THEN <<avg_gain, avg_loss>>
    ELSE wilderLoop(deltas, period, i + 1,
                    wilderStep(avg_gain, gainOf(deltas[i]), period),
                    wilderStep(avg_loss, lossOf(deltas[i]), period))

\* faulty variant: the zero-loss branch always answers 50
rsiFromAverages_always50(avg_gain, avg_loss) ==
    IF RIsZero(avg_loss) THEN RInt(50)
    ELSE RSub(RInt(100), RDiv(RInt(100), RAdd(RInt(1), RDiv(avg_gain, avg_loss))))

\* faulty variant: avg_gain >= 0 in place of avg_gain > 0
rsiFromAverages_geq(avg_gain, avg_loss) ==
    IF RIsZero(avg_loss) THEN RInt(100)
    ELSE RSub(RInt(100), RDiv(RInt(100), RAdd(RInt(1), RDiv(avg_gain, avg_loss))))

rsiFromAverages(avg_gain, avg_loss) ==
    IF RIsZero(avg_loss)
    THEN (IF RPos(avg_gain) THEN RInt(100) ELSE RInt(50))
    ELSE LET rs == RDiv(avg_gain, avg_loss)
         IN  RSub(RInt(100), RDiv(RInt(100), RAdd(RInt(1), rs)))

\* lines 22-38: <<avg_gain, avg_loss>> after the seed window and the loop
averagesOf(prices, period) ==
    LET deltas == deltasOf(prices)
        gains == [k \in 1..Len(firstDeltas(deltas, period)) |-> gainOf(deltas[k])]
        losses == [k \in 1..Len(firstDeltas(deltas, period)) |-> lossOf(deltas[k])]
        avg_gain == RNorm(SumSeq(gains), period)
        avg_loss == RNorm(SumSeq(losses), period)
    IN  wilderLoop(deltas, period, period + 1, avg_gain, avg_loss)

\* faulty variant: the guard compares with period in place of period + 1
calculate_rsi_short_guard(prices, period) ==
    IF Len(prices) < period THEN Returned(RInt(0))
    ELSE IF period = 0 THEN Raised("ZeroDivisionError", "division by zero")
    ELSE LET avg == averagesOf(prices, period)
         IN  Returned(rsiFromAverages(avg[1], avg[2]))

\* lines 16-46; period = 0 with enough data divides by zero at line 28
calculate_rsi_optimized(prices, period) ==
    IF Len(prices) < period + 1 THEN Returned(RInt(0))
    ELSE IF period = 0 THEN Raised("ZeroDivisionError", "division by zero")
    ELSE LET avg == averagesOf(prices, period)
         IN  Returned(rsiFromAverages(avg[1], avg[2]))

-----------------------------------------------------------------------------
(* Python dicts and the result records *)

NumMember(k, v) == [key |-> k, kind |-> "num", num |-> v, str |-> ""]
StrMember(k, s) == [key |-> k, kind |-> "str", num |-> <<0, 1>>, str |-> s]
DictMember(k, d) == [key |-> k, kind |-> "dict", num |-> <<0, 1>>, str |-> "", dict |-> d]

ErrorRecord(message) == << StrMember("error", message) >>

\* faulty variant: a zero peak leaves the correction out and notes an error
\* beside the numbers
compute_indicators_partial(prices) ==
    LET rsi_90 == calculate_rsi_optimized(prices, DAYS)
        peak_90 == MaxSeq(prices)
        current_price == prices[Len(prices)]
    IN  IF rsi_90.exc # "" THEN rsi_90
        ELSE IF peak_90 = 0
             THEN Returned(<< NumMember("price", round2(RInt(current_price))),
                              NumMember("peak", round2(RInt(peak_90))),
                              NumMember("rsi", round2(rsi_90.val)),
                              StrMember("error", "division by zero") >>)
        ELSE Returned(<< NumMember("price", round2(RInt(current_price))),
                         NumMember("peak", round2(RInt(peak_90))),
                         NumMember("rsi", round2(rsi_90.val)),
                         NumMember("correction",
                                   round2(RMul(RNorm(peak_90 - current_price, peak_90),
                                               RInt(100)))) >>)

\* lines 77-94: the indicators of a non-empty list of prices, or the exception
\* the computation raises
compute_indicators(prices) ==
    LET rsi_90 == calculate_rsi_optimized(prices, DAYS)
        peak_90 == MaxSeq(prices)
        current_price == prices[Len(prices)]
    IN  IF rsi_90.exc # "" THEN rsi_90
        ELSE IF peak_90 = 0 THEN Raised("ZeroDivisionError", "division by zero")
        ELSE LET correction_pct ==
                     RMul(RNorm(peak_90 - current_price, peak_90), RInt(100))
             IN  Returned(<< NumMember("price", round2(RInt(current_price))),
                             NumMember("peak", round2(RInt(peak_90))),
                             NumMember("rsi", round2(rsi_90.val)),
                             NumMember("correction", round2(correction_pct)) >>)

-----------------------------------------------------------------------------
(* Harness for the pure functions: arguments drawn from bounded sets *)

RECURSIVE SeqsUpTo(_, _)
SeqsUpTo(S, n) ==
    IF n = 0 THEN {<<>>}
    ELSE LET shorter == SeqsUpTo(S, n - 1)
         IN  shorter \cup {Append(s, x) : s \in {t \in shorter : Len(t) = n - 1}, x \in S}

Ascending91 == [k \in 1..91 |-> 99 + k]
Flat91 == [k \in 1..91 |-> 100]
Descending91 == [k \in 1..91 |-> 191 - k]
Pullback92 == Ascending91 \o <<180>>
Rebound93 == Descending91 \o <<105, 103>>

LongSeries == {Ascending91, Flat91, Descending91, Pullback92, Rebound93}

NotCalled == [exc |-> "not called"]

RsiInit ==
    /\ \/ /\ rsiPrices \in SeqsUpTo(0..MaxPrice, MaxLen)
          /\ rsiPeriod \in 0..MaxPeriod
       \/ /\ rsiPrices \in LongSeries
          /\ rsiPeriod = DAYS
    /\ rsiResult = NotCalled
    /\ engineResult = NotCalled

CallRsi ==
    /\ rsiResult = NotCalled
    /\ rsiResult' = calculate_rsi_optimized(rsiPrices, rsiPeriod)
    /\ UNCHANGED <<rsiPrices, rsiPeriod, engineResult>>

CallEngine ==
    /\ engineResult = NotCalled
    /\ rsiPrices # <<>>
    /\ engineResult' = compute_indicators(rsiPrices)
    /\ UNCHANGED <<rsiPrices, rsiPeriod, rsiResult>>

-----------------------------------------------------------------------------
(* get_real_time_data: what the upstream can do for one request *)

\* the [timestampMs, price] items of a well-formed response
ItemsOf(P) == [k \in 1..Len(P) |-> <<k, P[k]>>]

\* One upstream behaviour: get is "ok" or the exception requests.get raises,
\* status the HTTP status, is_json whether the body parses, type the JSON type
\* of the document, prices_kind whether "prices" is absent, null or a list.
Behaviour(g, m, st, j, t, pk, it) ==
    [get |-> g, msg |-> m, status |-> st, is_json |-> j, type |-> t,
     prices_kind |-> pk, items |-> it]

GoodResponse(P) == Behaviour("ok", "", 200, TRUE, "dict", "list", ItemsOf(P))

UpstreamCase(name) ==
    CASE name = "timeout" ->
           Behaviour("Timeout", "Read timed out. (read timeout=8)", 0, FALSE, "", "", <<>>)
      [] name = "refused" ->
           Behaviour("ConnectionError", "Connection refused", 0, FALSE, "", "", <<>>)
      [] name = "http429" ->
           Behaviour("ok", "429 Client Error: Too Many Requests", 429, FALSE, "", "", <<>>)
      [] name = "not_json" ->
           Behaviour("ok", "Expecting value: line 1 column 1 (char 0)", 200, FALSE, "", "", <<>>)
      [] name = "json_list" -> Behaviour("ok", "", 200, TRUE, "list", "", <<>>)
      [] name = "no_prices_key" -> Behaviour("ok", "", 200, TRUE, "dict", "absent", <<>>)
      [] name = "empty_prices" -> Behaviour("ok", "", 200, TRUE, "dict", "list", <<>>)
      [] name = "null_prices" -> Behaviour("ok", "", 200, TRUE, "dict", "null", <<>>)
      [] name = "short_item" ->
           Behaviour("ok", "", 200, TRUE, "dict", "list", << <<1, 3>>, <<2>> >>)
      [] name = "ascending91" -> GoodResponse(Ascending91)
      [] name = "pullback92" -> GoodResponse(Pullback92)
      [] name = "three_days" -> GoodResponse(<<3, 7, 5>>)
      [] name = "zero_peak" -> GoodResponse(<<0, 0>>)

UpstreamCases ==
    {"timeout", "refused", "http429", "not_json", "json_list", "no_prices_key",
     "empty_prices", "null_prices", "short_item", "ascending91", "pullback92",
     "three_days", "zero_peak"}

\* Classes derived from requests.exceptions.RequestException (line 96).
\* Response.json() raises requests.exceptions.JSONDecodeError, which derives
\* from RequestException since requests 2.27 and is a plain ValueError before.
IsRequestException(exc, jsonIsRequestException) ==
    \/ exc \in {"Timeout", "ConnectionError", "HTTPError"}
    \/ exc = "JSONDecodeError" /\ jsonIsRequestException

\* faulty variant: no check for an empty list, so max() of it raises
try_block_no_empty_check(u) ==
    IF u.get # "ok" THEN Raised(u.get, u.msg)
    ELSE IF u.status >= 400 THEN Raised("HTTPError", u.msg)
    ELSE IF ~u.is_json THEN Raised("JSONDecodeError", u.msg)
    ELSE IF u.type # "dict"
         THEN Raised("AttributeError", "'list' object has no attribute 'get'")
    ELSE IF u.prices_kind = "null"
         THEN Raised("TypeError", "'NoneType' object is not iterable")
    ELSE LET items == IF u.prices_kind = "absent" THEN <<>> ELSE u.items
         IN  IF \E k \in 1..Len(items) : Len(items[k]) < 2
             THEN Raised("IndexError", "list index out of range")
             ELSE LET prices == [k \in 1..Len(items) |-> items[k][2]]
                  IN  IF prices = <<>>
                      THEN Raised("ValueError", "max() arg is an empty sequence")
                      ELSE compute_indicators(prices)

\* lines 58-94: the body of the try block for one asset
try_block(u) ==
    IF u.get # "ok" THEN Raised(u.get, u.msg)
    ELSE IF u.status >= 400 THEN Raised("HTTPError", u.msg)
    ELSE IF ~u.is_json THEN Raised("JSONDecodeError", u.msg)
    ELSE IF u.type # "dict"
         THEN Raised("AttributeError", "'list' object has no attribute 'get'")
    ELSE IF u.prices_kind = "null"
         THEN Raised("TypeError", "'NoneType' object is not iterable")
    ELSE LET items == IF u.prices_kind = "absent" THEN <<>> ELSE u.items
         IN  IF \E k \in 1..Len(items) : Len(items[k]) < 2
             THEN Raised("IndexError", "list index out of range")
             ELSE LET prices == [k \in 1..Len(items) |-> items[k][2]]
                  IN  IF prices = <<>>
                      THEN Returned(ErrorRecord("No historical price data."))
                      ELSE compute_indicators(prices)

\* faulty variant: one handler for every exception
asset_result_one_handler(u, jsonIsRequestException) ==
    LET r == try_block(u)
    IN  IF r.exc = "" THEN r.val ELSE ErrorRecord("Processing error: " \o r.msg)

\* lines 55-99: the value stored in results[ticker]
asset_result(u, jsonIsRequestException) ==
    LET r == try_block(u)
    IN  IF r.exc = "" THEN r.val
        ELSE IF IsRequestException(r.exc, jsonIsRequestException)
             THEN ErrorRecord(r.msg)
             ELSE ErrorRecord("Processing error: " \o r.msg)

\* d[k] = v on a dict: an existing key keeps its place, a new key goes last
DictSet(d, k, v) ==
    IF \E n \in 1..Len(d) : d[n].key = k
    THEN [n \in 1..Len(d) |-> IF d[n].key = k THEN DictMember(k, v) ELSE d[n]]
    ELSE Append(d, DictMember(k, v))

fear_greed_index == 30

\* json.dumps: the document as JSON text, members in insertion order
json_dumps(d) == [json |-> d]

\* lines 59-67: the request for one coin
HistoryRequest(coin_id) ==
    [coin |-> coin_id, vs_currency |-> VS_CURRENCY, days |-> DAYS + 1,
     interval |-> "daily", timeout |-> 8]

DataInit ==
    /\ pc = "fetch"
    /\ idx = 1
    /\ requests_log = <<>>
    /\ upstream = <<>>
    /\ results = <<>>
    /\ returned = <<>>
    /\ jsonErrIsRequestException \in BOOLEAN

\* lines 54-67: the loop takes the next (ticker, coin_id) and issues its request
Fetch ==
    /\ pc = "fetch"
    /\ idx <= Len(COIN_IDS)
    /\ \E u \in UpstreamCases :
          upstream' = Append(upstream, u)
    /\ requests_log' = Append(requests_log, HistoryRequest(COIN_IDS[idx][2]))
    /\ pc' = "process"
    /\ UNCHANGED <<idx, results, returned, jsonErrIsRequestException>>

\* faulty variant: an asset that ended in an error record is fetched again
Process_retry ==
    /\ pc = "process"
    /\ results' = DictSet(results, COIN_IDS[idx][1],
                          asset_result(UpstreamCase(upstream[idx]),
                                       jsonErrIsRequestException))
    /\ idx' = IF results'[Len(results')].dict[1].key = "error"
                 /\ Len(requests_log) <= Len(COIN_IDS)
              THEN idx ELSE idx + 1
    /\ pc' = "fetch"
    /\ UNCHANGED <<requests_log, upstream, returned, jsonErrIsRequestException>>

\* lines 68-99: the response or the exception is turned into results[ticker]
Process ==
    /\ pc = "process"
    /\ results' = DictSet(results, COIN_IDS[idx][1],
                          asset_result(UpstreamCase(upstream[idx]),
                                       jsonErrIsRequestException))
    /\ idx' = idx + 1
    /\ pc' = "fetch"
    /\ UNCHANGED <<requests_log, upstream, returned, jsonErrIsRequestException>>

\* lines 101-111: the loop is over, the envelope is returned
Return ==
    /\ pc = "fetch"
    /\ idx > Len(COIN_IDS)
    /\ returned' = [statusCode |-> 200,
                    body |-> json_dumps(<< DictMember("data", results),
                                           NumMember("sentiment", RInt(fear_greed_index)),
                                           StrMember("status", "success") >>)]
    /\ pc' = "done"
    /\ UNCHANGED <<idx, requests_log, upstream, results, jsonErrIsRequestException>>

-----------------------------------------------------------------------------
(* handler.do_GET of the static page *)

Status(code) == [ev |-> "status", code |-> code, name |-> "", value |-> ""]
Header(n, v) == [ev |-> "header", code |-> 0, name |-> n, value |-> v]
EndHeaders == [ev |-> "end_headers", code |-> 0, name |-> "", value |-> ""]
\* wfile.write(text.encode()): the bytes of text
Body(text) == [ev |-> "body", code |-> 0, name |-> "", value |-> text]

\* what open() and read() of index.html can do
FileCase(name) ==
    CASE name = "page" -> [fs |-> "ok", content |-> "<html>dashboard</html>", msg |-> ""]
      [] name = "empty_page" -> [fs |-> "ok", content |-> "", msg |-> ""]
      [] name = "missing" ->
           [fs |-> "open_error", content |-> "",
            msg |-> "[Errno 2] No such file or directory: 'public/index.html'"]
      [] name = "denied" ->
           [fs |-> "open_error", content |-> "",
            msg |-> "[Errno 13] Permission denied: 'public/index.html'"]
      [] name = "undecodable" ->
           [fs |-> "read_error", content |-> "",
            msg |-> "'utf-8' codec can't decode byte 0xff in position 0"]

FileCases == {"page", "empty_page", "missing", "denied", "undecodable"}

\* The connection takes this many writes (the header block is one write, the
\* body another) before the client is gone and every later write raises.
WritesTaken == {0, 1, 2}

BrokenPipe == "[Errno 32] Broken pipe"

\* lines 13-16: the 200 header block
okHeaders ==
    << Status(200), Header("Content-type", "text/html"),
       Header("Cache-Control", "no-cache, no-store, must-revalidate"), EndHeaders >>

\* lines 19-21: the 500 header block
errorHeaders == << Status(500), Header("Content-type", "text/plain"), EndHeaders >>

\* faulty variant: the body is the bare message
except_block_bare(e, wire, written, taken) ==
    IF written >= taken THEN [wire |-> wire, escaped |-> TRUE]
    ELSE IF written + 1 >= taken
         THEN [wire |-> wire \o errorHeaders, escaped |-> TRUE]
    ELSE [wire |-> wire \o errorHeaders \o << Body(e) >>, escaped |-> FALSE]

\* lines 18-22: the except block for exception message e, with wire already
\* sent and written writes already made; escaped tells that a write raised
\* inside the block and the exception left do_GET
except_block(e, wire, written, taken) ==
    IF written >= taken THEN [wire |-> wire, escaped |-> TRUE]
    ELSE IF written + 1 >= taken
         THEN [wire |-> wire \o errorHeaders, escaped |-> TRUE]
    ELSE [wire |-> wire \o errorHeaders \o << Body("Error: " \o e) >>,
          escaped |-> FALSE]

\* lines 5-22
do_GET(file, taken) ==
    IF file.fs # "ok" THEN except_block(file.msg, <<>>, 0, taken)
    ELSE IF taken = 0 THEN except_block(BrokenPipe, <<>>, 0, taken)
    ELSE IF taken = 1 THEN except_block(BrokenPipe, okHeaders, 1, taken)
    ELSE [wire |-> okHeaders \o << Body(file.content) >>, escaped |-> FALSE]

PageInit == served = <<>>

\* one GET request served by a fresh handler
Get ==
    /\ Len(served) < MaxRequests
    /\ \E f \in FileCases, taken \in WritesTaken :
          served' = Append(served, [file |-> f, taken |-> taken,
                                    out |-> do_GET(FileCase(f), taken)])

DataIdle ==
    /\ pc = "idle"
    /\ idx = 0
    /\ requests_log = <<>>
    /\ upstream = <<>>
    /\ results = <<>>
    /\ returned = <<>>
    /\ jsonErrIsRequestException = FALSE

PageIdle == served = <<>>

RsiIdle ==
    /\ rsiPrices = <<>>
    /\ rsiPeriod = 0
    /\ rsiResult = NotCalled
    /\ engineResult = NotCalled

SpecRsiInit == RsiInit /\ DataIdle /\ PageIdle

SpecRsiNext ==
    \/ CallRsi /\ UNCHANGED dataVars /\ UNCHANGED pageVars
    \/ CallEngine /\ UNCHANGED dataVars /\ UNCHANGED pageVars

SpecRsi == SpecRsiInit /\ [][SpecRsiNext]_vars

Init == DataInit /\ RsiIdle /\ PageIdle

Next ==
    \/ Fetch /\ UNCHANGED rsiVars /\ UNCHANGED pageVars
    \/ Process /\ UNCHANGED rsiVars /\ UNCHANGED pageVars
    \/ Return /\ UNCHANGED rsiVars /\ UNCHANGED pageVars

Spec == Init /\ [][Next]_vars

SpecPageInit == PageInit /\ RsiIdle /\ DataIdle

SpecPageNext == Get /\ UNCHANGED rsiVars /\ UNCHANGED dataVars

SpecPage == SpecPageInit /\ [][SpecPageNext]_vars

-----------------------------------------------------------------------------
(* Properties of calculate_rsi_optimized, checked under SpecRsi *)

StrictlyIncreasing(P) == \A k \in 1..(Len(P) - 1) : P[k] < P[k + 1]
StrictlyDecreasing(P) == \A k \in 1..(Len(P) - 1) : P[k] > P[k + 1]
Flat(P) == \A k \in 1..(Len(P) - 1) : P[k] = P[k + 1]

RsiCalled == rsiResult # NotCalled
EngineCalled == engineResult # NotCalled

\* C7: whenever len(prices) < period + 1 (the empty list included), the call
\* returns exactly 0.0 and raises nothing.
C7_NotEnoughData ==
    (RsiCalled /\ Len(rsiPrices) < rsiPeriod + 1) => rsiResult = Returned(RInt(0))

C7_Witness ==
    /\ RsiCalled
    /\ rsiPrices # <<>>
    /\ Len(rsiPrices) = rsiPeriod
    /\ rsiResult = Returned(RInt(0))

\* C8: a strictly increasing series of at least period + 1 prices (period >= 1)
\* has RSI 100.0; and for [100, 101, ..., 190] the record built with period 90
\* is rsi = 100.0, peak = 190, price = 190, correction = 0.0.
C8_Increasing ==
    /\ (RsiCalled /\ rsiPeriod >= 1 /\ StrictlyIncreasing(rsiPrices)
          /\ Len(rsiPrices) >= rsiPeriod + 1)
       => rsiResult = Returned(RInt(100))
    /\ (EngineCalled /\ rsiPrices = [k \in 1..91 |-> 99 + k])
       => /\ engineResult.exc = ""
          /\ Len(engineResult.val) = 4
          /\ \A m \in 1..4 :
                /\ engineResult.val[m].kind = "num"
                /\ engineResult.val[m].key = "rsi" => engineResult.val[m].num = RInt(100)
                /\ engineResult.val[m].key = "peak" => engineResult.val[m].num = RInt(190)
                /\ engineResult.val[m].key = "price" => engineResult.val[m].num = RInt(190)
                /\ engineResult.val[m].key = "correction" => engineResult.val[m].num = RInt(0)
          /\ {engineResult.val[m].key : m \in 1..4} = {"rsi", "peak", "price", "correction"}

C8_Witness ==
    /\ RsiCalled
    /\ EngineCalled
    /\ rsiPrices = [k \in 1..91 |-> 99 + k]
    /\ rsiPeriod = DAYS
    /\ rsiResult = Returned(RInt(100))

\* a short rising series that goes through Wilder updates after the seed window
C8_WitnessSmoothing ==
    /\ RsiCalled
    /\ StrictlyIncreasing(rsiPrices)
    /\ rsiPeriod >= 1
    /\ Len(rsiPrices) >= rsiPeriod + 3

\* C9: a flat series of at least period + 1 prices (period >= 1) has RSI
\* exactly 50.0.
C9_Flat ==
    (RsiCalled /\ rsiPeriod >= 1 /\ Flat(rsiPrices) /\ Len(rsiPrices) >= rsiPeriod + 1)
    => rsiResult = Returned(RInt(50))

C9_Witness ==
    /\ RsiCalled
    /\ rsiPeriod >= 1
    /\ Flat(rsiPrices)
    /\ Len(rsiPrices) >= rsiPeriod + 2
    /\ rsiResult = Returned(RInt(50))

\* C10: a strictly decreasing series of at least period + 1 prices
\* (period >= 1) has RSI 0: avg_gain is 0 after the seed window and after
\* every update, avg_loss is positive, so the zero-loss branch is not taken.
C10_Decreasing ==
    (RsiCalled /\ rsiPeriod >= 1 /\ StrictlyDecreasing(rsiPrices)
       /\ Len(rsiPrices) >= rsiPeriod + 1)
    => /\ rsiResult = Returned(RInt(0))
       /\ \A n \in (rsiPeriod + 1)..Len(rsiPrices) :
             LET avg == averagesOf(SubSeq(rsiPrices, 1, n), rsiPeriod)
             IN  RIsZero(avg[1]) /\ RPos(avg[2])

C10_Witness ==
    /\ RsiCalled
    /\ rsiPeriod >= 1
    /\ StrictlyDecreasing(rsiPrices)
    /\ Len(rsiPrices) >= rsiPeriod + 2
    /\ rsiResult = Returned(RInt(0))

-----------------------------------------------------------------------------
(* Properties of get_real_time_data, checked under Spec *)

MemberOf(d, k) == d[CHOOSE n \in 1..Len(d) : d[n].key = k]
Data == MemberOf(returned.body.json, "data").dict
Ticker(k) == COIN_IDS[k][1]
Given(k) == UpstreamCase(upstream[k])

\* timeout, connection error or a non-2xx status
TransportFailure(u) == u.get # "ok" \/ u.status >= 400

\* fetched, parsed, and a list of [timestamp, price] items with a positive peak
UsablePrices(u) ==
    /\ ~TransportFailure(u)
    /\ u.is_json /\ u.type = "dict" /\ u.prices_kind = "list"
    /\ u.items # <<>>
    /\ \A k \in 1..Len(u.items) : Len(u.items[k]) = 2
    /\ \E k \in 1..Len(u.items) : u.items[k][2] > 0

\* fetched and parsed, with the price list absent or empty
NoPrices(u) ==
    /\ ~TransportFailure(u)
    /\ u.is_json /\ u.type = "dict"
    /\ u.prices_kind = "absent" \/ (u.prices_kind = "list" /\ u.items = <<>>)

\* e is the record the asset gets from its own prices alone: the last price,
\* the largest price, the rounded RSI over DAYS and the rounded fall from the
\* peak in percent
IsSuccessRecord(e, u) ==
    LET P == [k \in 1..Len(u.items) |-> u.items[k][2]]
        last == P[Len(P)]
    IN  /\ Len(e) = 4
        /\ e[1] = NumMember("price", RInt(last))
        /\ e[2].key = "peak" /\ e[2].kind = "num" /\ e[2].num[2] = 1
        /\ \E k \in 1..Len(P) : P[k] = e[2].num[1]
        /\ \A k \in 1..Len(P) : P[k] <= e[2].num[1]
        /\ e[3] = NumMember("rsi", round2(calculate_rsi_optimized(P, DAYS).val))
        /\ e[4] = NumMember("correction",
                            round2(RNorm((e[2].num[1] - last) * 100, e[2].num[1])))

EntryShapeOk(e) ==
    \/ /\ Len(e) = 4
       /\ {e[m].key : m \in 1..4} = {"price", "peak", "rsi", "correction"}
       /\ \A m \in 1..4 : e[m].kind = "num"
    \/ /\ Len(e) = 1
       /\ e[1].key = "error"
       /\ e[1].kind = "str"

\* C1: whichever assets fail at the transport level, each of them gets
\* {"error": message of the failure}, every asset with usable prices gets the
\* success record of its own prices, and the envelope is statusCode 200 with
\* status "success".
C1_FailureIsolation ==
    pc = "done" =>
        /\ returned.statusCode = 200
        /\ MemberOf(returned.body.json, "status").str = "success"
        /\ Len(Data) = Len(COIN_IDS)
        /\ \A k \in 1..Len(COIN_IDS) :
              /\ TransportFailure(Given(k))
                 => Data[k] = DictMember(Ticker(k), << StrMember("error", Given(k).msg) >>)
              /\ UsablePrices(Given(k))
                 => /\ Data[k].key = Ticker(k)
                    /\ IsSuccessRecord(Data[k].dict, Given(k))

C1_Witness ==
    /\ pc = "done"
    /\ upstream = <<"pullback92", "timeout", "http429", "three_days">>
    /\ Data[2].dict = << StrMember("error", "Read timed out. (read timeout=8)") >>
    /\ Data[4].dict[1] = NumMember("price", RInt(5))

\* C2: data holds one entry per configured ticker in configured order, and
\* every entry is either the four numeric fields or the single error field.
C2_EntryShapes ==
    /\ \A k \in 1..Len(results) :
          results[k].key = Ticker(k) /\ EntryShapeOk(results[k].dict)
    /\ pc = "done" =>
          /\ Len(Data) = Len(COIN_IDS)
          /\ \A k \in 1..Len(COIN_IDS) :
                Data[k].key = Ticker(k) /\ EntryShapeOk(Data[k].dict)

C2_Witness ==
    /\ pc = "done"
    /\ upstream = <<"zero_peak", "three_days", "not_json", "pullback92">>
    /\ Len(Data[1].dict) = 1
    /\ Len(Data[2].dict) = 4

\* C3: one request per configured asset, in configured order, none repeated,
\* and the request for the next asset only once the previous result is in
\* results.
C3_OneRequestPerAsset ==
    /\ Len(requests_log) <= Len(COIN_IDS)
    /\ \A k \in 1..Len(requests_log) : requests_log[k].coin = COIN_IDS[k][2]
    /\ Len(requests_log) = Len(results) + (IF pc = "process" THEN 1 ELSE 0)
    /\ pc = "done" => Len(requests_log) = Len(COIN_IDS)

C3_Witness ==
    /\ pc = "done"
    /\ upstream[1] = "timeout"
    /\ upstream[3] = "refused"
    /\ Len(requests_log) = Len(COIN_IDS)

\* C4: an asset fetched with an empty or absent price list gets exactly
\* {"error": "No historical price data."}, no indicators, and the loop goes on
\* to the next asset.
C4_NoPriceData ==
    /\ \A k \in 1..Len(results) :
          NoPrices(Given(k))
          => results[k] = DictMember(Ticker(k),
                                     << StrMember("error", "No historical price data.") >>)
    /\ pc \in {"fetch", "done"} => idx = Len(results) + 1
    /\ pc = "done" => Len(results) = Len(COIN_IDS)

C4_Witness ==
    /\ pc = "done"
    /\ upstream = <<"empty_prices", "no_prices_key", "ascending91", "empty_prices">>
    /\ Len(results[3].dict) = 4

\* C5: an exception that is no transport failure (a malformed response, a
\* zero peak) is recorded as "Processing error: " + message, a transport
\* failure with the bare message, and the envelope is always returned.
C5_ErrorPrefix ==
    /\ \A k \in 1..Len(results) :
          try_block(Given(k)).exc # ""
          => results[k].dict =
                ErrorRecord(IF TransportFailure(Given(k))
                            THEN try_block(Given(k)).msg
                            ELSE "Processing error: " \o try_block(Given(k)).msg)
    /\ pc = "done" => returned.statusCode = 200

\* the same statement where response.json() raises a plain ValueError
C5_WithValueErrorJson == jsonErrIsRequestException \/ C5_ErrorPrefix

-----------------------------------------------------------------------------
(* Properties of do_GET, checked under SpecPage *)

IsPrefix(a, b) == Len(a) <= Len(b) /\ a = SubSeq(b, 1, Len(a))

Has(wire, e) == \E i \in 1..Len(wire) : wire[i] = e

\* C6 as stated, for a client that stays connected: a read failure answers
\* 500, text/plain, body = the error message text; 200 or text/html only for
\* a request completed with the file's contents.
C6_BareMessageBody ==
    \A n \in 1..Len(served) :
        LET f == FileCase(served[n].file)
            w == served[n].out.wire
        IN  served[n].taken = 2 =>
            /\ f.fs # "ok"
               => w = << Status(500), Header("Content-type", "text/plain"),
                         EndHeaders, Body(f.msg) >>
            /\ (Has(w, Status(200)) \/ Has(w, Header("Content-type", "text/html")))
               => (f.fs = "ok" /\ Has(w, Body(f.content)) /\ ~served[n].out.escaped)

\* C6 amended: a failure to open or read the file answers 500, text/plain and
\* the body "Error: " + message, cut short only where the connection stops
\* taking writes; 200 or text/html only when the file was read.
C6_ErrorResponse ==
    \A n \in 1..Len(served) :
        LET f == FileCase(served[n].file)
            w == served[n].out.wire
            full == << Status(500), Header("Content-type", "text/plain"),
                       EndHeaders, Body("Error: " \o f.msg) >>
        IN  /\ f.fs # "ok"
               => /\ IsPrefix(w, full)
                  /\ served[n].taken = 2 => w = full
                  /\ ~served[n].out.escaped => w = full
            /\ (Has(w, Status(200)) \/ Has(w, Header("Content-type", "text/html")))
               => f.fs = "ok"

C6_Witness ==
    \E n \in 1..Len(served) :
        /\ served[n].file = "missing"
        /\ served[n].taken = 2
        /\ Has(served[n].out.wire, Status(500))
        /\ ~served[n].out.escaped

====
